---- MODULE Spec2Model ----
(***************************************************************************)
(* Model of scripts/export-history.py: one export run of main().  The run  *)
(* checks the token, pages through conversations.list, fetches the members *)
(* of every non-archived channel, pages through users.list, fetches the    *)
(* history of every channel the authenticated user is a member of, and     *)
(* writes the export to the destination directory.                         *)
(*                                                                         *)
(* The remote API is the environment: every call is answered with a        *)
(* response chosen from a bounded set (any HTTP status, any success flag,  *)
(* any page of items, any next cursor, any has_more flag).                 *)
(***************************************************************************)
EXTENDS Integers, Sequences, FiniteSets, TLC

\* Bound of the model: the number of API calls answered in one run.
MaxCalls == 6

\* Python's None, and a key that is missing from a decoded JSON body.
NONE == "None"
ABSENT == "absent"

\* HTTP status codes the transport can report (200 and one other).
StatusOK == 200
StatusError == 500

----------------------------------------------------------------------------
(* The remote API: what a response may hold.                               *)

\* The cursor the server hands out to ask for page i.
Tok(i) == "p" \o ToString(i)

\* The page a request asks for: no cursor is the first page.
PageIndex(cursor) ==
    IF cursor = NONE THEN 1
    ELSE CHOOSE i \in 2..(MaxCalls + 1) : Tok(i) = cursor

\* The next-cursor values page idx may carry: the end of the chain, the
\* cursor of the following page, or no response_metadata.next_cursor at all.
NextCursors(idx) == {"", Tok(idx + 1), ABSENT}

\* Channel records as conversations.list returns them.  C2 may share C1's name.
ChGeneral == [id |-> "C1", name |-> "general", is_archived |-> FALSE]
ChTwin    == [id |-> "C2", name |-> "general", is_archived |-> FALSE]
ChRandom  == [id |-> "C2", name |-> "random", is_archived |-> FALSE]
ChOld     == [id |-> "C2", name |-> "random", is_archived |-> TRUE]

SecondChannels == {ChTwin, ChRandom, ChOld}

\* Pages of conversations.list: up to two channels, identifiers ascending.
ChannelPages ==
    {<<>>}
        \cup {<<c>> : c \in {ChGeneral} \cup SecondChannels}
        \cup {<<ChGeneral, c>> : c \in SecondChannels}

\* Identifiers are unique within a run: a page never repeats a channel
\* identifier the run has already been given.
FreshChannelPages(chs) ==
    {p \in ChannelPages :
        \A i \in 1..Len(p) : \A j \in 1..Len(chs) : p[i].id # chs[j].id}

UserIds == {"U1", "U2"}

\* Pages of conversations.members: user identifiers.
MemberPages == {<<u>> : u \in UserIds}

\* Pages of users.list: user records.
UserPages == {<<[id |-> u]>> : u \in UserIds}

\* Attachments: a MIME type (its characters) and the thumbnail keys present, each with its URL.
ImageFile == [mimetype |-> <<"i", "m", "a", "g", "e", "/", "p", "n", "g">>,
              thumbs |-> (64 :> "https://f/a_64.png" @@ 1024 :> "https://f/a_1024.png")]
PdfFile   == [mimetype |-> <<"a", "p", "p", "l", "i", "c", "a", "t", "i", "o", "n", "/", "p", "d", "f">>,
              thumbs |-> (64 :> "https://f/b_64.png")]

\* Timestamps are strings "<sec>.<frac>"; frac is in microseconds.
Msg1 == [id |-> "m1", ts |-> [sec |-> 1700000000, frac |-> 100000], files |-> <<>>]
Msg2 == [id |-> "m2", ts |-> [sec |-> 1700000000, frac |-> 900000], files |-> <<ImageFile>>]
Msg3 == [id |-> "m3", ts |-> [sec |-> 1678060800, frac |-> 0], files |-> <<PdfFile>>]
Msg4 == [id |-> "m4", ts |-> [sec |-> 1678060799, frac |-> 999999], files |-> <<>>]

\* Pages of conversations.history.
HistoryPages == {<<Msg1>>, <<Msg3, Msg2>>, <<Msg4>>}

\* The body of a response whose HTTP status is not 200 is never decoded.
NoBody == [ok |-> FALSE, items |-> <<>>, next |-> ABSENT, has_more |-> FALSE,
           user_id |-> ABSENT]

Body(ok, items, next, has_more) ==
    [ok |-> ok, items |-> items, next |-> next, has_more |-> has_more,
     user_id |-> ABSENT]

\* A response whose HTTP status is not 200, with no usable body or with a
\* body that would pass for a good last page.
TransportFailures(body) ==
    {[status |-> StatusError, body |-> b] : b \in {NoBody, body}}

\* Items only a body with ok = false carries.
ChGhost == [id |-> "C9", name |-> "ghost", is_archived |-> FALSE]
MsgGhost == [id |-> "m9", ts |-> [sec |-> 0, frac |-> 500000], files |-> <<>>]
GhostId == "U9"

\* Responses of auth.test.
AuthResponses ==
    TransportFailures([NoBody EXCEPT !.ok = TRUE, !.user_id = "U1"])
        \cup {[status |-> StatusOK,
               body |-> [NoBody EXCEPT !.ok = ok, !.user_id = u]] :
                 ok \in BOOLEAN, u \in UserIds}

\* Responses of a cursor-paginated endpoint serving `pages`, asked for page idx.
\* A body with ok = false, or one that comes with a failed status, may still
\* carry a page (errpage): the caller must not use it.
CursorResponses(pages, errpage, idx) ==
    TransportFailures(Body(TRUE, errpage, "", FALSE))
        \cup {[status |-> StatusOK, body |-> Body(FALSE, errpage, "", FALSE)]}
        \cup {[status |-> StatusOK, body |-> Body(TRUE, p, n, FALSE)] :
                 p \in pages, n \in NextCursors(idx)}

\* Responses of conversations.history: has_more and the cursor are independent.
HistoryResponses(idx) ==
    TransportFailures(Body(TRUE, <<MsgGhost>>, "", FALSE))
        \cup {[status |-> StatusOK, body |-> Body(FALSE, <<MsgGhost>>, "", TRUE)]}
        \cup {[status |-> StatusOK, body |-> Body(TRUE, p, n, h)] :
                 p \in HistoryPages, n \in NextCursors(idx), h \in BOOLEAN}

----------------------------------------------------------------------------
(* State of one run.                                                       *)

VARIABLES
    pc,             \* where main() is
    user,           \* body returned by auth_test()
    channels,       \* list of channel records, each with its members
    users,          \* list of user records
    messages,       \* dict: channel name -> list of messages
    hist,           \* get_messages: the list being accumulated
    next_cursor,    \* the pagination loops' next_cursor
    ci,             \* index of the channel a for-loop is at
    download_token, \* output(): its download_token parameter
    dirs,           \* directories created under the destination
    files,          \* files written: path -> content
    calls           \* every API call issued so far, with its response

vars == <<pc, user, channels, users, messages, hist, next_cursor, ci,
          download_token, dirs, files, calls>>

\* args.download_token: --download-token is optional.
DownloadTokens == {NONE, "T"}

\* A dict with no key.
EmptyDict == [k \in {} |-> <<>>]

Init ==
    /\ pc = "auth"
    /\ user = NoBody
    /\ channels = <<>>
    /\ users = <<>>
    /\ messages = EmptyDict
    /\ hist = <<>>
    /\ next_cursor = NONE
    /\ ci = 0
    /\ download_token = NONE
    /\ dirs = {}
    /\ files = EmptyDict
    /\ calls = <<>>

----------------------------------------------------------------------------
(* The API client.                                                         *)

\* Client._get: one request and its response, appended to the log of calls.
Request(ep, channel, cursor, res) ==
    calls' = Append(calls, [ep |-> ep, channel |-> channel, cursor |-> cursor,
                            status |-> res.status, body |-> res.body])

\* A client that decodes the body whatever the status is.
Raises_Never(res) == FALSE

\* Client._decode_response: anything but 200 raises.
Raises(res) == res.status # StatusOK

\* The run ends with an uncaught exception.
Abort == pc' = "aborted"

\* The budget of API calls of the model.
CanCall == Len(calls) < MaxCalls

----------------------------------------------------------------------------
(* Pieces of the code the actions below are built from.                    *)

\* No check of the success flag at all.
ApiFailed_Never(body) == FALSE

\* A check of the success flag that lets a body through when it has items.
ApiFailed_OnlyEmpty(body) == ~body.ok /\ body.items = <<>>

\* `if not data["ok"]`: the API-level failure check of auth_test's result and
\* of every pagination loop.
ApiFailed(body) == ~body.ok

\* A loop that asks for the first page only.
LoopContinues_FirstPageOnly(cursor) == cursor = NONE

\* `while next_cursor != ""`: the guard of every pagination loop.
LoopContinues(cursor) == cursor # ""

\* data["response_metadata"]["next_cursor"] raises KeyError on a missing key.
KeyErrorOnCursor(body) == body.next = ABSENT

\* The cursor get_channels passes to conversations_members: none, whatever
\* the previous page returned.
MembersCursorArg(cursor) == NONE

\* A call that leaves the cursor out.
CursorArg_Dropped(cursor) == NONE

\* The cursor get_channels (first loop), get_users and get_messages pass.
CursorArg(cursor) == cursor

\* A get_messages that follows the cursor and never looks at has_more.
HistoryNextCursor_IgnoresFlag(body) == body.next

\* get_messages: the next_cursor after a page.
HistoryNextCursor(body) == IF ~body.has_more THEN "" ELSE body.next

\* `except Exception: pass` in get_channels: the member list is left as the
\* failed retrieval left it.
MembersAfterFailure(members) == members

\* A test for "the channel has members" instead of "the user is a member".
IsMember_AnyMember(uid, channel) == Len(channel.members) > 0

\* `user["user_id"] in channel["members"]`
IsMember(uid, channel) == \E i \in 1..Len(channel.members) : channel.members[i] = uid

\* A channel record as get_channels holds it: c["members"] = [] until fetched.
WithMembers(c) ==
    [id |-> c.id, name |-> c.name, is_archived |-> c.is_archived, members |-> <<>>]

WithMembersAll(p) == [i \in 1..Len(p) |-> WithMembers(p[i])]

\* A loop that fetches the members of archived channels too.
NextUnarchived_NoSkip(chs, i) == i

\* for c in channels: ... if c["is_archived"]: continue
\* The first channel at or after index i whose members are fetched.
RECURSIVE NextUnarchived(_, _)
NextUnarchived(chs, i) ==
    IF i > Len(chs) THEN i
    ELSE IF chs[i].is_archived THEN NextUnarchived(chs, i + 1)
    ELSE i

\* for channel in channels: if user["user_id"] in channel["members"]: ...
\* The first channel at or after index i whose history is fetched.
RECURSIVE NextJoined(_, _, _)
NextJoined(chs, uid, i) ==
    IF i > Len(chs) THEN i
    ELSE IF IsMember(uid, chs[i]) THEN i
    ELSE NextJoined(chs, uid, i + 1)

\* A main() that fetches the messages before the users.
StepAfter_MessagesFirst(step) ==
    CASE step = "auth_test" -> "get_channels"
      [] step = "get_channels" -> "get_messages"
      [] step = "get_messages" -> "get_users"
      [] step = "get_users" -> "output"

\* main(): the order of its steps.
StepAfter(step) ==
    CASE step = "auth_test" -> "get_channels"
      [] step = "get_channels" -> "get_users"
      [] step = "get_users" -> "get_messages"
      [] step = "get_messages" -> "output"

\* Where main() is once `step` begins: a loop that has nothing to go through
\* is over at once (get_messages is called for no channel).
RECURSIVE Enter(_, _, _)
Enter(step, chs, uid) ==
    CASE step = "get_channels" -> "list"
      [] step = "get_users" -> "users"
      [] step = "get_messages" ->
            IF NextJoined(chs, uid, 1) > Len(chs)
            THEN Enter(StepAfter(step), chs, uid)
            ELSE "messages"
      [] step = "output" -> "output"

\* The channel the loop of main() starts with.
FirstJoined(chs, uid) == NextJoined(chs, uid, 1)

----------------------------------------------------------------------------
(* main(), up to the retrieval of users.                                   *)

\* user = cli.auth_test(); if not user["ok"]: raise
AuthTest ==
    /\ pc = "auth"
    /\ CanCall
    /\ \E res \in AuthResponses :
        /\ Request("auth.test", NONE, NONE, res)
        /\ IF Raises(res) \/ ApiFailed(res.body)
           THEN /\ Abort
                /\ UNCHANGED <<user, next_cursor>>
           ELSE /\ pc' = Enter(StepAfter("auth_test"), channels, res.body.user_id)
                /\ user' = res.body
                /\ next_cursor' = NONE
    /\ UNCHANGED <<channels, users, messages, hist, ci, download_token, dirs, files>>

\* get_channels, first loop: one iteration.
ConversationsList ==
    /\ pc = "list"
    /\ LoopContinues(next_cursor)
    /\ CanCall
    /\ \E res \in CursorResponses(FreshChannelPages(channels), <<ChGhost>>,
                                  PageIndex(CursorArg(next_cursor))) :
        /\ Request("conversations.list", NONE, CursorArg(next_cursor), res)
        /\ IF Raises(res) \/ ApiFailed(res.body)
           THEN /\ Abort
                /\ UNCHANGED <<channels, next_cursor, ci>>
           ELSE LET chs == channels \o WithMembersAll(res.body.items) IN
                /\ channels' = chs
                /\ IF KeyErrorOnCursor(res.body)
                   THEN /\ Abort
                        /\ UNCHANGED <<next_cursor, ci>>
                   ELSE IF LoopContinues(res.body.next)
                   THEN /\ next_cursor' = res.body.next
                        /\ UNCHANGED <<pc, ci>>
                   ELSE \* the loop over the channels starts
                        /\ ci' = IF NextUnarchived(chs, 1) > Len(chs)
                                 THEN FirstJoined(chs, user.user_id)
                                 ELSE NextUnarchived(chs, 1)
                        /\ next_cursor' = NONE
                        /\ pc' = IF NextUnarchived(chs, 1) > Len(chs)
                                 THEN Enter(StepAfter("get_channels"), chs, user.user_id)
                                 ELSE "members"
    /\ UNCHANGED <<user, users, messages, hist, download_token, dirs, files>>

\* get_channels, second loop: one iteration of the while loop of channel ci.
\* Any exception ends the retrieval for this channel only.
ConversationsMembers ==
    /\ pc = "members"
    /\ LoopContinues(next_cursor)
    /\ CanCall
    /\ \E res \in CursorResponses(MemberPages, <<GhostId>>,
                                  PageIndex(MembersCursorArg(next_cursor))) :
        /\ Request("conversations.members", channels[ci].id,
                   MembersCursorArg(next_cursor), res)
        /\ LET failed == Raises(res) \/ ApiFailed(res.body)
               members == IF failed
                          THEN MembersAfterFailure(channels[ci].members)
                          ELSE channels[ci].members \o res.body.items
               caught == failed \/ KeyErrorOnCursor(res.body)
               chs == [channels EXCEPT ![ci].members = members]
           IN
           /\ channels' = chs
           /\ IF ~caught /\ LoopContinues(res.body.next)
              THEN /\ next_cursor' = res.body.next
                   /\ UNCHANGED <<pc, ci>>
              ELSE \* on to the next channel that is not archived
                   /\ ci' = IF NextUnarchived(chs, ci + 1) > Len(chs)
                            THEN FirstJoined(chs, user.user_id)
                            ELSE NextUnarchived(chs, ci + 1)
                   /\ next_cursor' = NONE
                   /\ pc' = IF NextUnarchived(chs, ci + 1) > Len(chs)
                            THEN Enter(StepAfter("get_channels"), chs, user.user_id)
                            ELSE "members"
    /\ UNCHANGED <<user, users, messages, hist, download_token, dirs, files>>

\* get_users: one iteration.
UsersList ==
    /\ pc = "users"
    /\ LoopContinues(next_cursor)
    /\ CanCall
    /\ \E res \in CursorResponses(UserPages, <<[id |-> GhostId]>>,
                                  PageIndex(CursorArg(next_cursor))) :
        /\ Request("users.list", NONE, CursorArg(next_cursor), res)
        /\ IF Raises(res) \/ ApiFailed(res.body)
           THEN /\ Abort
                /\ UNCHANGED <<users, next_cursor, ci>>
           ELSE /\ users' = users \o res.body.items
                /\ IF KeyErrorOnCursor(res.body)
                   THEN /\ Abort
                        /\ UNCHANGED <<next_cursor, ci>>
                   ELSE IF LoopContinues(res.body.next)
                   THEN /\ next_cursor' = res.body.next
                        /\ UNCHANGED <<pc, ci>>
                   ELSE \* the loop over the channels of main() starts
                        /\ ci' = FirstJoined(channels, user.user_id)
                        /\ next_cursor' = NONE
                        /\ pc' = Enter(StepAfter("get_users"), channels, user.user_id)
    /\ UNCHANGED <<user, channels, messages, hist, download_token, dirs, files>>

----------------------------------------------------------------------------
(* main(): the retrieval of messages.                                      *)

\* messages[channel["name"]] = ...: a dict assignment, a new key or an old one.
DictSet(d, k, v) == [x \in DOMAIN d \cup {k} |-> IF x = k THEN v ELSE d[x]]

\* get_messages: one iteration, for channel ci; on the last one the list is
\* stored under the channel's name and main() moves to the next channel.
ConversationsHistory ==
    /\ pc = "messages"
    /\ LoopContinues(next_cursor)
    /\ CanCall
    /\ \E res \in HistoryResponses(PageIndex(CursorArg(next_cursor))) :
        /\ Request("conversations.history", channels[ci].id,
                   CursorArg(next_cursor), res)
        /\ IF Raises(res) \/ ApiFailed(res.body)
           THEN /\ Abort
                /\ UNCHANGED <<messages, hist, next_cursor, ci>>
           ELSE LET msgs == hist \o res.body.items
                    cursor == HistoryNextCursor(res.body)
                    nxt == NextJoined(channels, user.user_id, ci + 1)
                IN
                IF cursor = ABSENT
                THEN /\ Abort
                     /\ hist' = msgs
                     /\ UNCHANGED <<messages, next_cursor, ci>>
                ELSE IF LoopContinues(cursor)
                THEN /\ hist' = msgs
                     /\ next_cursor' = cursor
                     /\ UNCHANGED <<pc, messages, ci>>
                ELSE /\ messages' = DictSet(messages, channels[ci].name, msgs)
                     /\ hist' = <<>>
                     /\ next_cursor' = NONE
                     /\ ci' = nxt
                     /\ pc' = IF nxt > Len(channels)
                              THEN Enter(StepAfter("get_messages"), channels, user.user_id)
                              ELSE "messages"
    /\ UNCHANGED <<user, channels, users, download_token, dirs, files>>

----------------------------------------------------------------------------
(* output(): dates, download tokens, files.                                *)

\* float(msg["ts"]) and the truncation time.gmtime applies to it: whole
\* seconds since the epoch (timestamps are not negative).
WholeSeconds(ts) == ts.sec + (ts.frac \div 1000000)

SecondsPerDay == 86400

\* time.gmtime: the UTC calendar date of a number of seconds since the epoch,
\* as <<tm_year, tm_mon, tm_mday>>.
GmTime(secs) ==
    LET z == (secs \div SecondsPerDay) + 719468
        era == z \div 146097
        doe == z - era * 146097
        yoe == (doe - doe \div 1460 + doe \div 36524 - doe \div 146096) \div 365
        doy == doe - (365 * yoe + yoe \div 4 - yoe \div 100)
        mp == (5 * doy + 2) \div 153
        d == doy - (153 * mp + 2) \div 5 + 1
        m == IF mp < 10 THEN mp + 3 ELSE mp - 9
        y == yoe + era * 400 + (IF m <= 2 THEN 1 ELSE 0)
    IN <<y, m, d>>

\* The format specs :02 and :04: zero padding to a minimum width.
Pad2(n) == IF n < 10 THEN "0" \o ToString(n) ELSE ToString(n)

Pad4(n) ==
    IF n < 10 THEN "000" \o ToString(n)
    ELSE IF n < 100 THEN "00" \o ToString(n)
    ELSE IF n < 1000 THEN "0" \o ToString(n)
    ELSE ToString(n)

\* key = f"{t.tm_year:04}-{t.tm_mon:02}-{t.tm_mday:02}"
DateKey(ts) ==
    LET t == GmTime(WholeSeconds(ts))
    IN Pad4(t[1]) \o "-" \o Pad2(t[2]) \o "-" \o Pad2(t[3])

\* str.startswith on strings held as sequences of characters.
StartsWith(s, prefix) ==
    /\ Len(s) >= Len(prefix)
    /\ SubSeq(s, 1, Len(prefix)) = prefix

ImagePrefix == <<"i", "m", "a", "g", "e">>

\* The thumbnail sizes append_download_token goes through.
ThumbSizes == <<64, 80, 360, 480, 160, 720, 800, 960, 1024>>

\* f[f"thumb_{s}"] += f"?t={download_token}" for the first n sizes; a missing
\* key raises KeyError, which is ignored.
RECURSIVE AppendToThumbs(_, _, _)
AppendToThumbs(thumbs, token, n) ==
    IF n = 0 THEN thumbs
    ELSE LET done == AppendToThumbs(thumbs, token, n - 1)
             s == ThumbSizes[n]
         IN IF s \in DOMAIN done
            THEN [done EXCEPT ![s] = @ \o "?t=" \o token]
            ELSE done

\* append_download_token, one file.
AppendTokenToFile(f, token) ==
    IF StartsWith(f.mimetype, ImagePrefix)
    THEN [f EXCEPT !.thumbs = AppendToThumbs(@, token, Len(ThumbSizes))]
    ELSE f

\* append_download_token(msg, download_token)
AppendDownloadToken(msg, token) ==
    [msg EXCEPT !.files = [i \in 1..Len(@) |-> AppendTokenToFile(@[i], token)]]

\* if download_token is not None: append_download_token(msg, download_token)
Rewritten(msg, token) ==
    IF token # NONE THEN AppendDownloadToken(msg, token) ELSE msg

\* A bucket that grows at the front.
BucketAdd_Prepend(msgs, key, msg) ==
    IF key \in DOMAIN msgs
    THEN [msgs EXCEPT ![key] = <<msg>> \o @]
    ELSE [x \in DOMAIN msgs \cup {key} |-> IF x = key THEN <<msg>> ELSE msgs[x]]

\* msgs[key].append(msg), creating msgs[key] first when the key is new.
BucketAdd(msgs, key, msg) ==
    IF key \in DOMAIN msgs
    THEN [msgs EXCEPT ![key] = Append(@, msg)]
    ELSE DictSet(msgs, key, <<msg>>)

\* The dict msgs after the first n messages of the list went through the loop.
RECURSIVE GroupByDate(_, _)
GroupByDate(list, n) ==
    IF n = 0 THEN EmptyDict
    ELSE BucketAdd(GroupByDate(list, n - 1), DateKey(list[n].ts), list[n])

\* The files of one channel directory: one per key of msgs.
DateFiles(name, msgs) ==
    [path \in {<<name, key>> : key \in DOMAIN msgs} |-> msgs[path[2]]]

\* open(path, "w"): new files are created, old ones are overwritten.
WriteAll(fs, new) ==
    [path \in DOMAIN fs \cup DOMAIN new |->
        IF path \in DOMAIN new THEN new[path] ELSE fs[path]]

\* The destination directory itself.
Dest == <<>>

\* main() calls output() with args.download_token; output(), up to the loop:
\* the destination, channels.json and users.json.
OutputBegin ==
    /\ pc = "output"
    /\ download_token' \in DownloadTokens
    /\ dirs' = dirs \cup {Dest}
    /\ files' = WriteAll(files, (<<"channels.json">> :> channels)
                                    @@ (<<"users.json">> :> users))
    /\ ci' = 1
    /\ pc' = IF Len(channels) = 0 THEN "done" ELSE "write"
    /\ UNCHANGED <<user, channels, users, messages, hist, next_cursor, calls>>

\* A loop that creates no channel directory.
MakeChannelDir_Forgotten(ds, name) == ds

\* channel_dir = f"{dest}/{channel['name']}"; os.makedirs(channel_dir, exist_ok=True)
MakeChannelDir(ds, name) == ds \cup {<<name>>}

\* output(): one iteration of the loop over the channels.
OutputChannel ==
    /\ pc = "write"
    /\ LET name == channels[ci].name IN
       /\ dirs' = MakeChannelDir(dirs, name)
       /\ IF name \notin DOMAIN messages
          THEN UNCHANGED <<messages, files>>
          ELSE LET list == [i \in 1..Len(messages[name]) |->
                               Rewritten(messages[name][i], download_token)]
               IN /\ messages' = [messages EXCEPT ![name] = list]
                  /\ files' = WriteAll(files,
                                       DateFiles(name, GroupByDate(list, Len(list))))
    /\ ci' = ci + 1
    /\ pc' = IF ci = Len(channels) THEN "done" ELSE "write"
    /\ UNCHANGED <<user, channels, users, hist, next_cursor, download_token, calls>>

----------------------------------------------------------------------------

Next ==
    \/ AuthTest
    \/ ConversationsList
    \/ ConversationsMembers
    \/ UsersList
    \/ ConversationsHistory
    \/ OutputBegin
    \/ OutputChannel

Spec == Init /\ [][Next]_vars

----------------------------------------------------------------------------
(* Vocabulary of the properties, read off the log of calls.                *)

Range(s) == {s[i] : i \in 1..Len(s)}

Last(s) == s[Len(s)]

\* A call that returned status 200 and a body with ok = true.
IsOkPage(c) == c.status = 200 /\ c.body.ok

\* The calls to an endpoint, as indices into the log.
CallsTo(ep) == {i \in 1..Len(calls) : calls[i].ep = ep}

\* The items of the good pages of an endpoint among the first n calls, in
\* the order the pages were fetched.
RECURSIVE ItemsFetched(_, _)
ItemsFetched(ep, n) ==
    IF n = 0 THEN <<>>
    ELSE IF calls[n].ep = ep /\ IsOkPage(calls[n])
    THEN ItemsFetched(ep, n - 1) \o calls[n].body.items
    ELSE ItemsFetched(ep, n - 1)

\* A channel record without its member list.
Bare(c) == [id |-> c.id, name |-> c.name, is_archived |-> c.is_archived]

\* The history endpoint was called for the channel.
HistoryCalled(c) ==
    \E i \in CallsTo("conversations.history") : calls[i].channel = c.id

\* The pagination loop of a step is still running.
InLoop(loop) == pc = loop /\ next_cursor # NONE

----------------------------------------------------------------------------
(* C1 *)

\* C1, as stated: in every run that reached message retrieval and has ended
\* (the output step began, or the run aborted after a history call), the
\* history endpoint was called for a channel and its name is a key of the
\* message mapping iff the authenticated user is in its member list.
C1_Original ==
    (pc \in {"output", "write", "done"}
        \/ (pc = "aborted" /\ CallsTo("conversations.history") # {}))
    => \A i \in 1..Len(channels) :
          (HistoryCalled(channels[i]) /\ channels[i].name \in DOMAIN messages)
              <=> user.user_id \in Range(channels[i].members)

\* C1, amended: in every run the history endpoint is called only for
\* channels whose member list holds the authenticated user; and once message
\* retrieval has completed, it was called for a channel and the channel's
\* name is a key of the message mapping iff the user is in its member list.
C1_HistoryIffMember ==
    /\ \A i \in 1..Len(channels) :
          HistoryCalled(channels[i]) => user.user_id \in Range(channels[i].members)
    /\ pc \in {"output", "write", "done"}
       => \A i \in 1..Len(channels) :
             (HistoryCalled(channels[i]) /\ channels[i].name \in DOMAIN messages)
                 <=> user.user_id \in Range(channels[i].members)

\* A finished run with a channel the user is in, fetched, and one with
\* members the user is not among, not fetched.
C1_Witness ==
    /\ pc = "done"
    /\ \E i, j \in 1..Len(channels) :
          /\ user.user_id \in Range(channels[i].members)
          /\ HistoryCalled(channels[i])
          /\ channels[j].members # <<>>
          /\ user.user_id \notin Range(channels[j].members)
          /\ ~HistoryCalled(channels[j])

----------------------------------------------------------------------------
(* C2 *)

\* The loop of a cursor-exhaustion pagination: every call but the last
\* returned a good page with a next cursor that is not empty, the loop is
\* left only after a good page with an empty next cursor, and a good page
\* with a next cursor that is not empty keeps the loop going with it.
CursorLoopExact(ep, loop, later) ==
    /\ \A i, j \in CallsTo(ep) :
          i < j => IsOkPage(calls[i]) /\ calls[i].body.next \notin {"", ABSENT}
    /\ pc \in later
       => \E i \in CallsTo(ep) :
             /\ \A j \in CallsTo(ep) : j <= i
             /\ IsOkPage(calls[i])
             /\ calls[i].body.next = ""
    /\ (calls # <<>> /\ Last(calls).ep = ep /\ IsOkPage(Last(calls))
            /\ Last(calls).body.next \notin {"", ABSENT})
       => pc = loop /\ next_cursor = Last(calls).body.next

\* C2: for the channel list and the user list, the accumulated list is the
\* concatenation, in page order, of the items of every page fetched, and the
\* loop stops exactly after the first page whose next cursor is empty.
C2_CursorPagination ==
    /\ users = ItemsFetched("users.list", Len(calls))
    /\ [i \in 1..Len(channels) |-> Bare(channels[i])]
          = ItemsFetched("conversations.list", Len(calls))
    /\ CursorLoopExact("conversations.list", "list",
                       {"members", "users", "messages", "output", "write", "done"})
    /\ CursorLoopExact("users.list", "users",
                       {"messages", "output", "write", "done"})

\* Both lists took two pages with different items, and both loops are over.
C2_Witness ==
    /\ pc \in {"messages", "output"}
    /\ Cardinality(CallsTo("conversations.list")) = 2
    /\ Cardinality(CallsTo("users.list")) = 2
    /\ Len(channels) = 2
    /\ Len(users) = 2
    /\ users[1] # users[2]

----------------------------------------------------------------------------
(* C3 *)

----------------------------------------------------------------------------
(* C4 *)

\* A conversations.members call that failed: a status other than 200, or a
\* body with ok = false.
FailedCall(c) == c.status # 200 \/ ~c.body.ok

\* C4, as stated: when a members call of a channel fails at any page, the run
\* does not abort, member retrieval moves on to the following channels, and
\* the channel's member list is empty, also when earlier member pages of the
\* channel had been fetched.
C4_Claim ==
    \A k \in CallsTo("conversations.members") :
        FailedCall(calls[k])
        => /\ \A i \in 1..Len(channels) :
                 channels[i].id = calls[k].channel => channels[i].members = <<>>
           /\ k = Len(calls)
              => /\ pc \in {"members", "users"}
                 /\ pc = "members" => channels[ci].id # calls[k].channel

----------------------------------------------------------------------------
(* C5 *)

\* C5: when the auth check returns a body with ok = false, the run aborts,
\* the auth check is the only call ever issued, and nothing is created in the
\* output location.
C5_InvalidTokenAborts ==
    (calls # <<>> /\ calls[1].status = 200 /\ ~calls[1].body.ok)
    => /\ pc = "aborted"
       /\ Len(calls) = 1
       /\ calls[1].ep = "auth.test"
       /\ dirs = {}
       /\ DOMAIN files = {}

\* The auth check came back with status 200 and ok = false.
C5_Witness ==
    /\ calls # <<>>
    /\ calls[1].ep = "auth.test"
    /\ calls[1].status = 200
    /\ ~calls[1].body.ok
    /\ pc = "aborted"

----------------------------------------------------------------------------
(* C6 *)

\* C6, as stated: a status other than 200 on any call aborts the run at once
\* and no call follows it.
C6_Original ==
    \A k \in 1..Len(calls) :
        calls[k].status # 200 => pc = "aborted" /\ k = Len(calls)

\* C6, amended: a status other than 200 on an auth, channel-list, user-list or
\* history call aborts the run at once and no call follows it; on a members
\* call it ends the member retrieval of that channel (no members call for the
\* channel follows) and the run goes on with the next channel.
C6_TransportFailure ==
    \A k \in 1..Len(calls) :
        calls[k].status # 200
        => IF calls[k].ep # "conversations.members"
           THEN pc = "aborted" /\ k = Len(calls)
           ELSE /\ \A j \in CallsTo("conversations.members") :
                      j > k => calls[j].channel # calls[k].channel
                /\ k = Len(calls)
                   => /\ pc \in {"members", "users"}
                      /\ pc = "members" => channels[ci].id # calls[k].channel

\* A members call failed with a bad status and the run went on; later a call
\* of another endpoint failed with a bad status and the run aborted.
C6_Witness ==
    /\ pc = "aborted"
    /\ calls # <<>>
    /\ Last(calls).status # 200
    /\ Last(calls).ep # "conversations.members"
    /\ \E k \in CallsTo("conversations.members") : calls[k].status # 200

----------------------------------------------------------------------------
(* C7 *)

\* Nothing was created in the output location.
NothingWritten == dirs = {} /\ DOMAIN files = {}

\* No item of a body with ok = false is in any list of the run.
NoGhostItem ==
    /\ \A i \in 1..Len(channels) : channels[i].id # ChGhost.id
    /\ \A i \in 1..Len(users) : users[i].id # GhostId
    /\ \A i \in 1..Len(hist) : hist[i].id # MsgGhost.id
    /\ \A n \in DOMAIN messages :
          \A i \in 1..Len(messages[n]) : messages[n][i].id # MsgGhost.id

\* C7: a page with ok = false of the channel list, the user list or a channel
\* history is the last call of the run, which aborts with none of the page's
\* items taken and nothing written; and whenever something has been written,
\* every call of these endpoints and the auth check returned a good page.
C7_ApiFailureAborts ==
    /\ \A k \in 1..Len(calls) :
          (calls[k].ep \in {"conversations.list", "users.list", "conversations.history"}
              /\ calls[k].status = 200 /\ ~calls[k].body.ok)
          => /\ pc = "aborted"
             /\ k = Len(calls)
             /\ NoGhostItem
             /\ NothingWritten
    /\ ~NothingWritten
       => /\ pc \in {"write", "done"}
          /\ \A k \in 1..Len(calls) :
                calls[k].ep # "conversations.members" => IsOkPage(calls[k])

\* The second page of a channel's history came back with ok = false.
C7_Witness ==
    /\ pc = "aborted"
    /\ calls # <<>>
    /\ Last(calls).ep = "conversations.history"
    /\ Last(calls).status = 200
    /\ ~Last(calls).body.ok
    /\ Last(calls).body.items # <<>>
    /\ hist # <<>>

----------------------------------------------------------------------------
(* C8 *)

\* C8: an archived channel has an empty member list and no members call is
\* ever issued with its identifier.
C8_ArchivedUntouched ==
    \A i \in 1..Len(channels) :
        channels[i].is_archived
        => /\ channels[i].members = <<>>
           /\ \A k \in CallsTo("conversations.members") :
                 calls[k].channel # channels[i].id

\* get_channels is over for an archived channel and one that is not, whose
\* members were fetched.
C8_Witness ==
    /\ pc \in {"users", "messages", "output", "write", "done"}
    /\ \E i, j \in 1..Len(channels) :
          /\ channels[i].is_archived
          /\ ~channels[j].is_archived
          /\ channels[j].members # <<>>

----------------------------------------------------------------------------
(* C9 *)

\* The step of main() an endpoint belongs to.
StepRank(ep) ==
    CASE ep = "auth.test" -> 0
      [] ep \in {"conversations.list", "conversations.members"} -> 1
      [] ep = "users.list" -> 2
      [] ep = "conversations.history" -> 3

CallsInOrder ==
    /\ calls # <<>> => calls[1].ep = "auth.test"
    /\ \A i, j \in 1..Len(calls) :
          i < j => /\ StepRank(calls[i].ep) <= StepRank(calls[j].ep)
                   /\ calls[j].ep # "auth.test"

\* C9: the auth check is the first call; channel-list and members calls come
\* before every user-list call, user-list calls before every history call; and
\* once anything is written to the output location no API call is issued.
C9_RetrievalOrder ==
    /\ []CallsInOrder
    /\ [][~NothingWritten => calls' = calls]_vars
    /\ [][~NothingWritten' => calls' = calls]_vars

\* A finished run that called every endpoint and wrote its output.
C9_Witness ==
    /\ pc = "done"
    /\ \A ep \in {"auth.test", "conversations.list", "conversations.members",
                  "users.list", "conversations.history"} : CallsTo(ep) # {}
    /\ ~NothingWritten

----------------------------------------------------------------------------
(* C10 *)

\* The UTC calendar dates of the timestamps the API serves, as Python's
\* time.gmtime gives them.
ExpectedDate(ts) ==
    CASE ts.sec = 1700000000 -> "2023-11-14"
      [] ts.sec = 1678060800 -> "2023-03-06"
      [] ts.sec = 1678060799 -> "2023-03-05"
      [] ts.sec = 0 -> "1970-01-01"

\* The messages of a list that fall on a date, in the order of the list.
RECURSIVE OnDate(_, _, _)
OnDate(list, date, n) ==
    IF n = 0 THEN <<>>
    ELSE IF ExpectedDate(list[n].ts) = date
    THEN Append(OnDate(list, date, n - 1), list[n])
    ELSE OnDate(list, date, n - 1)

\* The date files of a channel directory.
DateFilesOf(name) == {path \in DOMAIN files : Len(path) = 2 /\ path[1] = name}

\* C10: once the output loop has gone through a channel that is a key of the
\* message mapping, the date files of the channel are exactly the dates of
\* its messages, and each holds the messages of that date, all of them, once
\* each, in the order of the retrieved list.
C10_DateFiles ==
    \A i \in 1..Len(channels) :
        (pc \in {"write", "done"} /\ i < ci /\ channels[i].name \in DOMAIN messages)
        => LET name == channels[i].name
               list == messages[name]
           IN /\ {path[2] : path \in DateFilesOf(name)}
                    = {ExpectedDate(list[k].ts) : k \in 1..Len(list)}
              /\ \A path \in DateFilesOf(name) :
                    files[path] = OnDate(list, path[2], Len(list))

\* A finished run with a channel whose messages fall on two dates, two of
\* them on the same date with one of the other date between them.
C10_Witness ==
    /\ pc = "done"
    /\ \E n \in DOMAIN messages :
          /\ Len(messages[n]) = 3
          /\ ExpectedDate(messages[n][1].ts) = ExpectedDate(messages[n][3].ts)
          /\ ExpectedDate(messages[n][1].ts) # ExpectedDate(messages[n][2].ts)
          /\ messages[n][1].id # messages[n][3].id
          /\ Cardinality(DateFilesOf(n)) = 2

----------------------------------------------------------------------------
(* C11 *)

\* The message the API served under an identifier, before any rewriting.
AsServed(id) ==
    CASE id = "m1" -> Msg1
      [] id = "m2" -> Msg2
      [] id = "m3" -> Msg3
      [] id = "m4" -> Msg4
      [] id = "m9" -> MsgGhost

\* The thumbnail sizes of the documented set.
RewrittenSizes == {64, 80, 160, 360, 480, 720, 800, 960, 1024}

\* An attachment as the claim wants it written, given the one served.
RewrittenOnce(written, served, token) ==
    IF token # NONE /\ Len(served.mimetype) >= 5
           /\ SubSeq(served.mimetype, 1, 5) = <<"i", "m", "a", "g", "e">>
    THEN /\ written.mimetype = served.mimetype
         /\ DOMAIN written.thumbs = DOMAIN served.thumbs
         /\ \A size \in DOMAIN served.thumbs :
               written.thumbs[size] =
                   IF size \in RewrittenSizes
                   THEN served.thumbs[size] \o "?t=" \o token
                   ELSE served.thumbs[size]
    ELSE written = served

\* C11, as stated: in every date file, every attachment of every message is
\* the attachment the API served with "?t=T" appended once to each thumbnail
\* URL of the set when a token T is configured and the MIME type begins with
\* "image", and the attachment as served otherwise.
C11_Claim ==
    \A path \in DOMAIN files :
        Len(path) = 2
        => \A i \in 1..Len(files[path]) :
              LET m == files[path][i] IN
              /\ Len(m.files) = Len(AsServed(m.id).files)
              /\ \A k \in 1..Len(m.files) :
                    RewrittenOnce(m.files[k], AsServed(m.id).files[k], download_token)

----------------------------------------------------------------------------
(* C12 *)

\* C12: every channel the output loop has gone through has its directory,
\* also when its name is no key of the message mapping, and then the
\* directory holds no date file; and every date file is in the directory of a
\* key of the message mapping, named by the date of one of its messages.
C12_OutputLocations ==
    /\ \A i \in 1..Len(channels) :
          (pc \in {"write", "done"} /\ i < ci)
          => /\ <<channels[i].name>> \in dirs
             /\ channels[i].name \notin DOMAIN messages
                => DateFilesOf(channels[i].name) = {}
    /\ \A path \in DOMAIN files :
          Len(path) = 2
          => /\ path[1] \in DOMAIN messages
             /\ \E k \in 1..Len(messages[path[1]]) :
                   ExpectedDate(messages[path[1]][k].ts) = path[2]

\* A finished run with a channel that is no key of the message mapping, whose
\* directory exists and is empty, and a channel with date files.
C12_Witness ==
    /\ pc = "done"
    /\ \E i, j \in 1..Len(channels) :
          /\ channels[i].name \notin DOMAIN messages
          /\ <<channels[i].name>> \in dirs
          /\ DateFilesOf(channels[i].name) = {}
          /\ channels[j].name \in DOMAIN messages
          /\ DateFilesOf(channels[j].name) # {}

----------------------------------------------------------------------------
(* C13 *)

\* A good page of a cursor-exhaustion pagination without a next-cursor field.
CursorMissing(c) ==
    /\ c.ep \in {"conversations.list", "users.list", "conversations.members"}
    /\ IsOkPage(c)
    /\ c.body.next = ABSENT

\* C13, as stated: a good page without a next-cursor field is a last page:
\* no call for a further page of the same pagination follows it, and right
\* after it the run has not aborted and has left that pagination.
C13_Claim ==
    \A k \in 1..Len(calls) :
        CursorMissing(calls[k])
        => /\ \A j \in 1..Len(calls) :
                 (j > k /\ calls[j].ep = calls[k].ep)
                 => calls[j].channel # calls[k].channel
           /\ k = Len(calls)
              => /\ pc # "aborted"
                 /\ calls[k].ep = "conversations.list" => pc # "list"
                 /\ calls[k].ep = "users.list" => pc # "users"
                 /\ (calls[k].ep = "conversations.members" /\ pc = "members")
                    => channels[ci].id # calls[k].channel

----------------------------------------------------------------------------
(* C14 *)

\* The calls to an endpoint for a channel that came before call k.
EarlierCalls(k) ==
    {j \in 1..(k - 1) : calls[j].ep = calls[k].ep /\ calls[j].channel = calls[k].channel}

\* The call before call k in the same pagination.
PreviousCall(k) == CHOOSE j \in EarlierCalls(k) : \A i \in EarlierCalls(k) : i <= j

\* Every call to the endpoint passes no cursor when it is the first one for
\* its channel, and the next cursor of the page before it otherwise.
CursorsFollowed(ep) ==
    \A k \in CallsTo(ep) :
        calls[k].cursor = IF EarlierCalls(k) = {} THEN NONE
                          ELSE calls[PreviousCall(k)].body.next

\* C14, as stated: the first conversations.members call for a channel passes
\* no cursor and every later one passes the next cursor of the page before
\* it, so that no page of a channel's members is asked for twice.
C14_Claim ==
    /\ CursorsFollowed("conversations.members")
    /\ \A j, k \in CallsTo("conversations.members") :
          (j < k /\ calls[j].channel = calls[k].channel)
          => calls[j].cursor # calls[k].cursor

----------------------------------------------------------------------------
(* C15 *)

\* Two calls made the same request.
SameRequest(j, k) ==
    /\ calls[j].ep = calls[k].ep
    /\ calls[j].channel = calls[k].channel
    /\ calls[j].cursor = calls[k].cursor

\* The API served chains of pages: the same request got the same response
\* every time, so the page after a page is fixed by the cursor it returned.
ChainServed ==
    \A j, k \in 1..Len(calls) :
        SameRequest(j, k)
        => calls[j].status = calls[k].status /\ calls[j].body = calls[k].body

\* C15, as stated, for finite runs: when the API serves chains of pages, no
\* run makes the same request twice.  A loop that does gets the answer it got
\* before, is where it was before, and makes the request again without end:
\* a run that terminates on a finite chain asks for each page at most once.
C15_Claim ==
    ChainServed => \A j, k \in 1..Len(calls) : j < k => ~SameRequest(j, k)

----------------------------------------------------------------------------
(* C16 *)

\* The messages of the good history pages of a channel among the first n
\* calls, in the order the pages were fetched.
RECURSIVE HistoryFetched(_, _)
HistoryFetched(id, n) ==
    IF n = 0 THEN <<>>
    ELSE IF calls[n].ep = "conversations.history" /\ calls[n].channel = id
            /\ IsOkPage(calls[n])
    THEN HistoryFetched(id, n - 1) \o calls[n].body.items
    ELSE HistoryFetched(id, n - 1)

\* The list stored under the name of the channel with this identifier.
StoredFor(id) ==
    LET i == CHOOSE i \in 1..Len(channels) : channels[i].id = id
    IN IF channels[i].name \in DOMAIN messages
       THEN messages[channels[i].name] ELSE <<>>

\* get_messages has just returned for the channel of the last call.
HistoryReturned ==
    /\ calls # <<>>
    /\ Last(calls).ep = "conversations.history"
    /\ IsOkPage(Last(calls))
    /\ ~InLoop("messages")
    /\ pc \in {"messages", "users", "output"}

----------------------------------------------------------------------------
(* C17 *)

\* C17, as stated: whatever the names of the channels, every thumbnail URL of
\* every retrieved message is the URL the API served, or that URL with the
\* token suffix appended once.
C17_Claim ==
    \A n \in DOMAIN messages :
        \A i \in 1..Len(messages[n]) :
            LET m == messages[n][i] IN
            \A k \in 1..Len(m.files) :
                \A size \in DOMAIN m.files[k].thumbs :
                    LET served == AsServed(m.id).files[k].thumbs[size] IN
                    m.files[k].thumbs[size]
                        \in {served, served \o "?t=" \o download_token}

====
